---- MODULE Spec2Model ----
(***************************************************************************)
(* Model of the rafthttp peer-transport handlers (rafthttp/http.go):       *)
(* handler (POST /raft), snapshotHandler (POST /raft/snapshot) and         *)
(* streamHandler (GET /raft/stream/...), the compatibility check that      *)
(* gates them and the closeNotifier a stream handler blocks on.            *)
(*                                                                         *)
(* Every inbound request is served by its own task.  A task is modelled    *)
(* by a program counter pc[c] that walks through the statements of the     *)
(* ServeHTTP method, one action per statement group that ends in a call    *)
(* to a collaborator or in a response.  Collaborators (Raft.Process,       *)
(* Raft.IsIDRemoved, SnapshotSaver.SaveFrom, peerGetter.Get) are           *)
(* interfaces: their results are chosen nondeterministically at the call.  *)
(* calls[c] records, in order, the operations a request has performed.     *)
(***************************************************************************)
EXTENDS Integers, Sequences, FiniteSets, TLC

(***************************************************************************)
(* Bounds of the model.                                                    *)
(***************************************************************************)
MaxIndex == 2        \* snapshot indexes carried by messages are 1..MaxIndex
MaxWaits == 2        \* receives from one closeNotify() besides the handler's
NumStreams == 2      \* stream connections served concurrently

(***************************************************************************)
(* Program constants.                                                      *)
(***************************************************************************)
ConnReadLimitByte == 64 * 1024

StatusOK == 200
StatusNoContent == 204
StatusBadRequest == 400
StatusForbidden == 403
StatusNotFound == 404
StatusMethodNotAllowed == 405
StatusGone == 410
StatusPreconditionFailed == 412
StatusInternalServerError == 500

RaftPrefix == <<"raft">>
ProbingPrefix == RaftPrefix \o <<"probing">>
RaftStreamPrefix == RaftPrefix \o <<"stream">>
RaftSnapshotPrefix == RaftPrefix \o <<"snapshot">>

errIncompatibleVersion == "incompatible version"
errClusterIDMismatch == "cluster ID mismatch"
nil == ""

\* stream types (rafthttp/stream.go); the path segments are those of the
\* wire surface: /raft/stream/msgapp/<id> and /raft/stream/message/<id>
streamTypeMessage == "message"
streamTypeMsgAppV2 == "msgappv2"
streamTypeMsgApp == "msgapp"

\* configuration of the receiving member: its own ID and its cluster ID
LocalID == 10
LocalCID == 1

\* version.Version and version.MinClusterVersion of the receiving member,
\* as major.minor numbers
LocalServerVersion == 2
LocalMinClusterVersion == 2
Version == "version.Version"

(***************************************************************************)
(* types.ID: an ID prints as lower-case hexadecimal without padding and is *)
(* parsed from hexadecimal (upper or lower case, leading zeros allowed).   *)
(***************************************************************************)
IDString(id) ==
    CASE id = 1 -> "1"
      [] id = 2 -> "2"
      [] id = 7 -> "7"
      [] id = 10 -> "a"
      [] id = 11 -> "b"
      [] OTHER -> "?"

\* the result of types.IDFromString: [err, id]
IDFromString(s) ==
    CASE s = "1" -> [err |-> FALSE, id |-> 1]
      [] s = "2" -> [err |-> FALSE, id |-> 2]
      [] s = "7" -> [err |-> FALSE, id |-> 7]
      [] s = "07" -> [err |-> FALSE, id |-> 7]
      [] s = "a" -> [err |-> FALSE, id |-> 10]
      [] s = "A" -> [err |-> FALSE, id |-> 10]
      [] s = "b" -> [err |-> FALSE, id |-> 11]
      [] OTHER -> [err |-> TRUE, id |-> 0]

(***************************************************************************)
(* path.Dir and path.Base on a cleaned, rooted path, kept as the sequence  *)
(* of its segments: "/raft/stream/7" is <<"raft", "stream", "7">>.         *)
(***************************************************************************)
PathDir(p) == IF Len(p) = 0 THEN <<>> ELSE SubSeq(p, 1, Len(p) - 1)
PathBase(p) == IF Len(p) = 0 THEN "/" ELSE p[Len(p)]

(***************************************************************************)
(* Requests.                                                               *)
(***************************************************************************)
Methods == {"POST", "GET", "PUT"}
MsgTypes == {"MsgApp", "MsgSnap"}

\* raftpb.Message, reduced to its type tag and its snapshot index
Messages == [Type : MsgTypes, Index : 1..MaxIndex]
NoMsg == [Type |-> "", Index |-> 0]

\* A request body: its length in bytes, whether the underlying reader
\* fails, whether its bytes are a well-formed encoding, and the message
\* they encode.
BodyLens == {1, ConnReadLimitByte, ConnReadLimitByte + 1}
NoBody == [len |-> 0, readErr |-> FALSE, valid |-> FALSE, m |-> NoMsg]
Bodies ==
    {[len |-> 0, readErr |-> TRUE, valid |-> FALSE, m |-> NoMsg]}
    \cup {[len |-> l, readErr |-> FALSE, valid |-> FALSE, m |-> NoMsg] : l \in BodyLens}
    \cup {[len |-> l, readErr |-> FALSE, valid |-> TRUE, m |-> msg] :
              l \in BodyLens, msg \in Messages}

ClusterIDHeaders == {IDString(LocalCID), "2"}
RaftToHeaders == {IDString(LocalID), "A", "b"}
TermHeaders == {"", "5"}
ServerVersions == {1, 2}
MinClusterVersions == {2, 3}

FromStrs == {"7", "b", "zz"}
StreamDirs == {RaftStreamPrefix,
               RaftStreamPrefix \o <<streamTypeMsgApp>>,
               RaftStreamPrefix \o <<streamTypeMessage>>,
               RaftStreamPrefix \o <<streamTypeMsgAppV2>>,
               ProbingPrefix,
               RaftPrefix}
StreamPaths == {d \o <<f>> : d \in StreamDirs, f \in FromStrs}
PostPaths == {RaftPrefix, RaftSnapshotPrefix}

Header(sver, mcver, cid, to, term) ==
    [ServerVersion |-> sver, MinClusterVersion |-> mcver,
     ClusterID |-> cid, RaftTo |-> to, RaftTerm |-> term]

PostHeaders ==
    {Header(sv, mv, cid, "", "") :
        sv \in ServerVersions, mv \in MinClusterVersions, cid \in ClusterIDHeaders}
StreamHeaders ==
    {Header(sv, mv, cid, to, term) :
        sv \in ServerVersions, mv \in MinClusterVersions, cid \in ClusterIDHeaders,
        to \in RaftToHeaders, term \in TermHeaders}

\* the requests that may reach each handler
PostRequests(h) ==
    [handler : {h}, Method : Methods, Path : PostPaths, Header : PostHeaders, Body : Bodies]
StreamRequests ==
    [handler : {"stream"}, Method : Methods, Path : StreamPaths, Header : StreamHeaders,
     Body : {NoBody}]
Requests == PostRequests("msg") \cup PostRequests("snapshot") \cup StreamRequests
NoReq == [handler |-> "", Method |-> "", Path |-> <<>>, Header |-> Header(0, 0, "", "", ""),
          Body |-> NoBody]

(***************************************************************************)
(* http.ResponseWriter: the status line (0 while nothing is written), the  *)
(* header map, the body text, whether it has been flushed, and which call  *)
(* wrote the status line.                                                  *)
(***************************************************************************)
NoHeader == [Allow |-> "", ClusterID |-> "", ServerVersion |-> ""]
NoResp == [status |-> 0, hdr |-> NoHeader, body |-> "", flushed |-> FALSE, by |-> ""]

\* w.Header().Set(key, value): headers set after the status line was
\* written are not sent
HeaderSet(w, key, value) ==
    IF w.status # 0 THEN w ELSE [w EXCEPT !.hdr = [@ EXCEPT ![key] = value]]

\* w.WriteHeader(code): only the first call takes effect
WriteHeader(w, code, who) ==
    IF w.status # 0 THEN w ELSE [w EXCEPT !.status = code, !.by = who]

\* http.Error(w, msg, code)
HttpError(w, msg, code) ==
    IF w.status # 0 THEN w
    ELSE [WriteHeader(w, code, "http.Error") EXCEPT !.body = msg]

\* w.(http.Flusher).Flush()
Flush(w) == [w EXCEPT !.flushed = TRUE]

(***************************************************************************)
(* Compatibility check.                                                    *)
(***************************************************************************)
\* serverVersion(header), minClusterVersion(header)
serverVersion(header) == header.ServerVersion
minClusterVersion(header) == header.MinClusterVersion

\* checkVersionCompability (rafthttp/util.go): the sender's version must
\* not be below the receiver's minimum, and the sender's stated minimum
\* must not be above the receiver's version
checkVersionCompability(server, minCluster) ==
    IF server < LocalMinClusterVersion THEN "remote version is too low"
    ELSE IF minCluster > LocalServerVersion THEN "local version is too low"
    ELSE nil

\* variant: the cluster ID comparison is left out
checkClusterCompatibilityFromHeader_versionOnly(header, cid) ==
    IF checkVersionCompability(serverVersion(header), minClusterVersion(header)) # nil
    THEN errIncompatibleVersion
    ELSE nil

checkClusterCompatibilityFromHeader(header, cid) ==
    IF checkVersionCompability(serverVersion(header), minClusterVersion(header)) # nil
    THEN errIncompatibleVersion
    ELSE IF header.ClusterID # IDString(cid)
    THEN errClusterIDMismatch
    ELSE nil

(***************************************************************************)
(* Body decoding.                                                          *)
(***************************************************************************)
\* ioutil.ReadAll(pioutil.NewLimitedBufferReader(r.Body, n)): the read
\* fails when the underlying reader fails or the body exceeds the ceiling
ReadAllLimited(body, n) ==
    IF body.readErr \/ body.len > n
    THEN [err |-> TRUE, b |-> NoBody]
    ELSE [err |-> FALSE, b |-> body]

\* raftpb.Message.Unmarshal(b)
Unmarshal(b) ==
    IF b.valid THEN [err |-> FALSE, m |-> b.m] ELSE [err |-> TRUE, m |-> NoMsg]

\* messageDecoder.decode(): reads and decodes the message envelope from
\* the front of the body, without any ceiling
decode(body) ==
    IF body.readErr \/ ~body.valid
    THEN [err |-> TRUE, m |-> NoMsg]
    ELSE [err |-> FALSE, m |-> body.m]

(***************************************************************************)
(* Results of the collaborators.                                           *)
(***************************************************************************)
\* the error returned by Raft.Process: nil, an error implementing
\* writerToResponse (it writes its own status code), or any other error
WriterToCodes == {StatusForbidden}
NoErr == [kind |-> "nil", code |-> 0]
ProcessResults ==
    {NoErr, [kind |-> "error", code |-> 0]}
    \cup {[kind |-> "writerToResponse", code |-> k] : k \in WriterToCodes}

\* writerToResponse.WriteTo(w)
WriteTo(err, w) == WriteHeader(w, err.code, "WriteTo")

NoLocals == [m |-> NoMsg, err |-> NoErr, t |-> "", from |-> 0, p |-> 0]
NoConn == [t |-> "", termStr |-> "", peer |-> 0, attached |-> FALSE]

(***************************************************************************)
(* State.                                                                  *)
(***************************************************************************)
VARIABLES
    req,      \* req[c]: the request served by task c
    pc,       \* pc[c]: the statement task c is at
    resp,     \* resp[c]: the response writer of task c
    loc,      \* loc[c]: the local variables of ServeHTTP in task c
    calls,    \* calls[c]: the operations task c has performed, in order
    conn,     \* conn[c]: the outgoingConn built by stream task c
    done,     \* done[c]: the done channel of task c's closeNotifier
    fault,    \* TRUE once the process has panicked
    closes,   \* closes[c]: how many times Close was called on task c's closeNotifier
    waits,    \* waits[c]: receives from closeNotify() completed besides the handler's
    remote    \* remote[c]: whether the remote end still holds the connection open

vars == <<req, pc, resp, loc, calls, conn, done, fault, closes, waits, remote>>

Tasks == DOMAIN pc

\* the server runs one task per inbound request
InitTasks == {1}

\* the handlers hold no state of their own: before a request arrives, every
\* task of ts is idle
InitOf(ts) ==
    /\ req = [c \in ts |-> NoReq]
    /\ pc = [c \in ts |-> "idle"]
    /\ resp = [c \in ts |-> NoResp]
    /\ loc = [c \in ts |-> NoLocals]
    /\ calls = [c \in ts |-> <<>>]
    /\ conn = [c \in ts |-> NoConn]
    /\ done = [c \in ts |-> "none"]
    /\ fault = FALSE
    /\ closes = [c \in ts |-> 0]
    /\ waits = [c \in ts |-> 0]
    /\ remote = [c \in ts |-> "connected"]

Init == InitOf(InitTasks)

\* the HTTP server accepts a request out of rs and starts the handler in a
\* new task
ServeOf(c, rs) ==
    /\ ~fault
    /\ pc[c] = "idle"
    /\ \E r \in rs :
          /\ req' = [req EXCEPT ![c] = r]
          /\ pc' = [pc EXCEPT ![c] = "method"]
    /\ resp' = [resp EXCEPT ![c] = NoResp]
    /\ loc' = [loc EXCEPT ![c] = NoLocals]
    /\ calls' = [calls EXCEPT ![c] = <<>>]
    /\ conn' = [conn EXCEPT ![c] = NoConn]
    /\ done' = [done EXCEPT ![c] = "none"]
    /\ UNCHANGED <<fault, closes, waits, remote>>

Serve(c) == ServeOf(c, Requests)

\* a task at statement s of handler h
At(c, h, s) == ~fault /\ req[c].handler = h /\ pc[c] = s

\* a step of task c: it moves to statement s with response w, having
\* performed the operations ops
Step(c, s, w, ops) ==
    /\ pc' = [pc EXCEPT ![c] = s]
    /\ resp' = [resp EXCEPT ![c] = w]
    /\ calls' = [calls EXCEPT ![c] = @ \o ops]
    /\ UNCHANGED <<req, fault, closes, waits, remote>>

(***************************************************************************)
(* handler.ServeHTTP                                                       *)
(***************************************************************************)
handler_method(c) ==
    /\ At(c, "msg", "method")
    /\ IF req[c].Method # "POST"
       THEN Step(c, "returned",
                 HttpError(HeaderSet(resp[c], "Allow", "POST"),
                           "Method Not Allowed", StatusMethodNotAllowed), <<>>)
       ELSE Step(c, "check", HeaderSet(resp[c], "ClusterID", IDString(LocalCID)), <<>>)
    /\ UNCHANGED <<loc, conn, done>>

\* variant: the 412 is written but the handler does not return
handler_check_noReturn(c) ==
    /\ At(c, "msg", "check")
    /\ LET err == checkClusterCompatibilityFromHeader(req[c].Header, LocalCID)
       IN IF err # nil
          THEN Step(c, "read", HttpError(resp[c], err, StatusPreconditionFailed),
                    <<"check">>)
          ELSE Step(c, "read", resp[c], <<"check">>)
    /\ UNCHANGED <<loc, conn, done>>

handler_check(c) ==
    /\ At(c, "msg", "check")
    /\ LET err == checkClusterCompatibilityFromHeader(req[c].Header, LocalCID)
       IN IF err # nil
          THEN Step(c, "returned", HttpError(resp[c], err, StatusPreconditionFailed),
                    <<"check">>)
          ELSE Step(c, "read", resp[c], <<"check">>)
    /\ UNCHANGED <<loc, conn, done>>

\* variant: a failed read is answered 500
handler_read_500(c) ==
    /\ At(c, "msg", "read")
    /\ LET r == ReadAllLimited(req[c].Body, ConnReadLimitByte)
           u == Unmarshal(r.b)
       IN IF r.err
          THEN /\ Step(c, "returned",
                       HttpError(resp[c], "error reading raft message",
                                 StatusInternalServerError),
                       <<"read">>)
               /\ UNCHANGED loc
          ELSE IF u.err
          THEN /\ Step(c, "returned",
                       HttpError(resp[c], "error unmarshaling raft message",
                                 StatusBadRequest),
                       <<"read", "unmarshal">>)
               /\ UNCHANGED loc
          ELSE /\ Step(c, "process", resp[c], <<"read", "unmarshal">>)
               /\ loc' = [loc EXCEPT ![c].m = u.m]
    /\ UNCHANGED <<conn, done>>

\* variant: the result of Unmarshal is not examined
handler_read_uncheckedUnmarshal(c) ==
    /\ At(c, "msg", "read")
    /\ LET r == ReadAllLimited(req[c].Body, ConnReadLimitByte)
           u == Unmarshal(r.b)
       IN IF r.err
          THEN /\ Step(c, "returned",
                       HttpError(resp[c], "error reading raft message", StatusBadRequest),
                       <<"read">>)
               /\ UNCHANGED loc
          ELSE /\ Step(c, "process", resp[c], <<"read", "unmarshal">>)
               /\ loc' = [loc EXCEPT ![c].m = u.m]
    /\ UNCHANGED <<conn, done>>

handler_read(c) ==
    /\ At(c, "msg", "read")
    /\ LET r == ReadAllLimited(req[c].Body, ConnReadLimitByte)
           u == Unmarshal(r.b)
       IN IF r.err
          THEN /\ Step(c, "returned",
                       HttpError(resp[c], "error reading raft message", StatusBadRequest),
                       <<"read">>)
               /\ UNCHANGED loc
          ELSE IF u.err
          THEN /\ Step(c, "returned",
                       HttpError(resp[c], "error unmarshaling raft message",
                                 StatusBadRequest),
                       <<"read", "unmarshal">>)
               /\ UNCHANGED loc
          ELSE /\ Step(c, "process", resp[c], <<"read", "unmarshal">>)
               /\ loc' = [loc EXCEPT ![c].m = u.m]
    /\ UNCHANGED <<conn, done>>

handler_process(c) ==
    /\ At(c, "msg", "process")
    /\ \E err \in ProcessResults :
          loc' = [loc EXCEPT ![c].err = err]
    /\ Step(c, "respond", resp[c], <<"Process">>)
    /\ UNCHANGED <<conn, done>>

\* variant: every error of Process is answered 500 by the handler
handler_respond_all500(c) ==
    /\ At(c, "msg", "respond")
    /\ LET err == loc[c].err
       IN IF err.kind = "nil"
          THEN Step(c, "returned", WriteHeader(resp[c], StatusNoContent, "WriteHeader"), <<>>)
          ELSE Step(c, "returned",
                    HttpError(resp[c], "error processing raft message",
                              StatusInternalServerError), <<>>)
    /\ UNCHANGED <<loc, conn, done>>

handler_respond(c) ==
    /\ At(c, "msg", "respond")
    /\ LET err == loc[c].err
       IN IF err.kind = "nil"
          THEN Step(c, "returned", WriteHeader(resp[c], StatusNoContent, "WriteHeader"), <<>>)
          ELSE IF err.kind = "writerToResponse"
          THEN Step(c, "returned", WriteTo(err, resp[c]), <<"WriteTo">>)
          ELSE Step(c, "returned",
                    HttpError(resp[c], "error processing raft message",
                              StatusInternalServerError), <<>>)
    /\ UNCHANGED <<loc, conn, done>>

(***************************************************************************)
(* snapshotHandler.ServeHTTP                                               *)
(***************************************************************************)
\* variant: the X-Etcd-Cluster-ID header is not set
snapshotHandler_method_noHeader(c) ==
    /\ At(c, "snapshot", "method")
    /\ IF req[c].Method # "POST"
       THEN Step(c, "returned",
                 HttpError(HeaderSet(resp[c], "Allow", "POST"),
                           "Method Not Allowed", StatusMethodNotAllowed), <<>>)
       ELSE Step(c, "check", resp[c], <<>>)
    /\ UNCHANGED <<loc, conn, done>>

snapshotHandler_method(c) ==
    /\ At(c, "snapshot", "method")
    /\ IF req[c].Method # "POST"
       THEN Step(c, "returned",
                 HttpError(HeaderSet(resp[c], "Allow", "POST"),
                           "Method Not Allowed", StatusMethodNotAllowed), <<>>)
       ELSE Step(c, "check", HeaderSet(resp[c], "ClusterID", IDString(LocalCID)), <<>>)
    /\ UNCHANGED <<loc, conn, done>>

snapshotHandler_check(c) ==
    /\ At(c, "snapshot", "check")
    /\ LET err == checkClusterCompatibilityFromHeader(req[c].Header, LocalCID)
       IN IF err # nil
          THEN Step(c, "returned", HttpError(resp[c], err, StatusPreconditionFailed),
                    <<"check">>)
          ELSE Step(c, "decode", resp[c], <<"check">>)
    /\ UNCHANGED <<loc, conn, done>>

\* variant: the message type is not examined
snapshotHandler_decode_anyType(c) ==
    /\ At(c, "snapshot", "decode")
    /\ LET d == decode(req[c].Body)
       IN IF d.err
          THEN /\ Step(c, "returned",
                       HttpError(resp[c], "failed to decode raft message", StatusBadRequest),
                       <<"decode">>)
               /\ UNCHANGED loc
          ELSE /\ Step(c, "save", resp[c], <<"decode">>)
               /\ loc' = [loc EXCEPT ![c].m = d.m]
    /\ UNCHANGED <<conn, done>>

snapshotHandler_decode(c) ==
    /\ At(c, "snapshot", "decode")
    /\ LET d == decode(req[c].Body)
       IN IF d.err
          THEN /\ Step(c, "returned",
                       HttpError(resp[c], "failed to decode raft message", StatusBadRequest),
                       <<"decode">>)
               /\ UNCHANGED loc
          ELSE IF d.m.Type # "MsgSnap"
          THEN /\ Step(c, "returned",
                       HttpError(resp[c], "wrong raft message type", StatusBadRequest),
                       <<"decode">>)
               /\ UNCHANGED loc
          ELSE /\ Step(c, "save", resp[c], <<"decode">>)
               /\ loc' = [loc EXCEPT ![c].m = d.m]
    /\ UNCHANGED <<conn, done>>

\* variant: a failed SaveFrom is logged but the handler goes on
snapshotHandler_save_continue(c) ==
    /\ At(c, "snapshot", "save")
    /\ \E saved \in BOOLEAN :
          IF ~saved
          THEN Step(c, "process", resp[c], <<"SaveFrom", "SaveFrom failed">>)
          ELSE Step(c, "process", resp[c], <<"SaveFrom", "SaveFrom ok">>)
    /\ UNCHANGED <<loc, conn, done>>

\* h.snapSaver.SaveFrom(r.Body, m.Snapshot.Metadata.Index)
snapshotHandler_save(c) ==
    /\ At(c, "snapshot", "save")
    /\ \E saved \in BOOLEAN :
          IF ~saved
          THEN Step(c, "returned",
                    HttpError(resp[c], "failed to save KV snapshot",
                              StatusInternalServerError), <<"SaveFrom", "SaveFrom failed">>)
          ELSE Step(c, "process", resp[c], <<"SaveFrom", "SaveFrom ok">>)
    /\ UNCHANGED <<loc, conn, done>>

snapshotHandler_process(c) ==
    /\ At(c, "snapshot", "process")
    /\ \E err \in ProcessResults :
          loc' = [loc EXCEPT ![c].err = err]
    /\ Step(c, "respond", resp[c], <<"Process">>)
    /\ UNCHANGED <<conn, done>>

snapshotHandler_respond(c) ==
    /\ At(c, "snapshot", "respond")
    /\ LET err == loc[c].err
       IN IF err.kind = "nil"
          THEN Step(c, "returned", WriteHeader(resp[c], StatusNoContent, "WriteHeader"), <<>>)
          ELSE IF err.kind = "writerToResponse"
          THEN Step(c, "returned", WriteTo(err, resp[c]), <<"WriteTo">>)
          ELSE Step(c, "returned",
                    HttpError(resp[c], "failed to process raft message",
                              StatusInternalServerError), <<>>)
    /\ UNCHANGED <<loc, conn, done>>

(***************************************************************************)
(* streamHandler.ServeHTTP                                                 *)
(***************************************************************************)
\* variant: the Allow header names the method of the other handlers
streamHandler_method_allowPost(c) ==
    /\ At(c, "stream", "method")
    /\ IF req[c].Method # "GET"
       THEN Step(c, "returned",
                 HttpError(HeaderSet(resp[c], "Allow", "POST"),
                           "Method Not Allowed", StatusMethodNotAllowed), <<>>)
       ELSE Step(c, "check",
                 HeaderSet(HeaderSet(resp[c], "ServerVersion", Version),
                           "ClusterID", IDString(LocalCID)), <<>>)
    /\ UNCHANGED <<loc, conn, done>>

streamHandler_method(c) ==
    /\ At(c, "stream", "method")
    /\ IF req[c].Method # "GET"
       THEN Step(c, "returned",
                 HttpError(HeaderSet(resp[c], "Allow", "GET"),
                           "Method Not Allowed", StatusMethodNotAllowed), <<>>)
       ELSE Step(c, "check",
                 HeaderSet(HeaderSet(resp[c], "ServerVersion", Version),
                           "ClusterID", IDString(LocalCID)), <<>>)
    /\ UNCHANGED <<loc, conn, done>>

streamHandler_check(c) ==
    /\ At(c, "stream", "check")
    /\ LET err == checkClusterCompatibilityFromHeader(req[c].Header, LocalCID)
       IN IF err # nil
          THEN Step(c, "returned", HttpError(resp[c], err, StatusPreconditionFailed),
                    <<"check">>)
          ELSE Step(c, "path", resp[c], <<"check">>)
    /\ UNCHANGED <<loc, conn, done>>

\* variant: each path segment selects the stream type of the same name
streamTypeOfPath_sameName(p) ==
    LET dir == PathDir(p)
    IN IF dir = RaftStreamPrefix THEN [ok |-> TRUE, t |-> streamTypeMsgApp]
       ELSE IF dir = RaftStreamPrefix \o <<streamTypeMsgApp>>
       THEN [ok |-> TRUE, t |-> streamTypeMsgApp]
       ELSE IF dir = RaftStreamPrefix \o <<streamTypeMessage>>
       THEN [ok |-> TRUE, t |-> streamTypeMessage]
       ELSE [ok |-> FALSE, t |-> ""]

\* the switch on path.Dir(r.URL.Path): [ok, t]
streamTypeOfPath(p) ==
    LET dir == PathDir(p)
    IN IF dir = RaftStreamPrefix THEN [ok |-> TRUE, t |-> streamTypeMsgApp]
       ELSE IF dir = RaftStreamPrefix \o <<streamTypeMsgApp>>
       THEN [ok |-> TRUE, t |-> streamTypeMsgAppV2]
       ELSE IF dir = RaftStreamPrefix \o <<streamTypeMessage>>
       THEN [ok |-> TRUE, t |-> streamTypeMessage]
       ELSE [ok |-> FALSE, t |-> ""]

streamHandler_path(c) ==
    /\ At(c, "stream", "path")
    /\ LET st == streamTypeOfPath(req[c].Path)
       IN IF ~st.ok
          THEN /\ Step(c, "returned", HttpError(resp[c], "invalid path", StatusNotFound),
                       <<"path">>)
               /\ UNCHANGED loc
          ELSE /\ Step(c, "from", resp[c], <<"path">>)
               /\ loc' = [loc EXCEPT ![c].t = st.t]
    /\ UNCHANGED <<conn, done>>

\* variant: an unparseable sender ID is answered 400
streamHandler_from_badRequest(c) ==
    /\ At(c, "stream", "from")
    /\ LET f == IDFromString(PathBase(req[c].Path))
       IN IF f.err
          THEN /\ Step(c, "returned", HttpError(resp[c], "invalid from", StatusBadRequest),
                       <<"from">>)
               /\ UNCHANGED loc
          ELSE /\ Step(c, "removed", resp[c], <<"from">>)
               /\ loc' = [loc EXCEPT ![c].from = f.id]
    /\ UNCHANGED <<conn, done>>

streamHandler_from(c) ==
    /\ At(c, "stream", "from")
    /\ LET f == IDFromString(PathBase(req[c].Path))
       IN IF f.err
          THEN /\ Step(c, "returned", HttpError(resp[c], "invalid from", StatusNotFound),
                       <<"from">>)
               /\ UNCHANGED loc
          ELSE /\ Step(c, "removed", resp[c], <<"from">>)
               /\ loc' = [loc EXCEPT ![c].from = f.id]
    /\ UNCHANGED <<conn, done>>

\* variant: the 410 is written but the handler does not return
streamHandler_removed_noReturn(c) ==
    /\ At(c, "stream", "removed")
    /\ \E removed \in BOOLEAN :
          IF removed
          THEN Step(c, "get", HttpError(resp[c], "removed member", StatusGone),
                    <<"IsIDRemoved", "removed">>)
          ELSE Step(c, "get", resp[c], <<"IsIDRemoved">>)
    /\ UNCHANGED <<loc, conn, done>>

\* h.r.IsIDRemoved(uint64(from))
streamHandler_removed(c) ==
    /\ At(c, "stream", "removed")
    /\ \E removed \in BOOLEAN :
          IF removed
          THEN Step(c, "returned", HttpError(resp[c], "removed member", StatusGone),
                    <<"IsIDRemoved", "removed">>)
          ELSE Step(c, "get", resp[c], <<"IsIDRemoved">>)
    /\ UNCHANGED <<loc, conn, done>>

\* variant: an unknown peer is reported but the handler goes on to the
\* X-Raft-To check
streamHandler_get_noReturn(c) ==
    /\ At(c, "stream", "get")
    /\ \E p \in {0, loc[c].from} :
          IF p = 0
          THEN /\ Step(c, "to",
                       HttpError(resp[c], "error sender not found", StatusNotFound),
                       <<"Get">>)
               /\ UNCHANGED loc
          ELSE /\ Step(c, "to", resp[c], <<"Get">>)
               /\ loc' = [loc EXCEPT ![c].p = p]
    /\ UNCHANGED <<conn, done>>

\* h.peerGetter.Get(from): the peer of that ID, or nil (0)
streamHandler_get(c) ==
    /\ At(c, "stream", "get")
    /\ \E p \in {0, loc[c].from} :
          IF p = 0
          THEN /\ Step(c, "returned",
                       HttpError(resp[c], "error sender not found", StatusNotFound),
                       <<"Get">>)
               /\ UNCHANGED loc
          ELSE /\ Step(c, "to", resp[c], <<"Get">>)
               /\ loc' = [loc EXCEPT ![c].p = p]
    /\ UNCHANGED <<conn, done>>

\* variant: X-Raft-To is parsed and compared as an ID, not as a string
streamHandler_to_numeric(c) ==
    /\ At(c, "stream", "to")
    /\ LET gto == IDFromString(req[c].Header.RaftTo)
       IN IF gto.err \/ gto.id # LocalID
          THEN Step(c, "returned",
                    HttpError(resp[c], "to field mismatch", StatusPreconditionFailed),
                    <<"to">>)
          ELSE Step(c, "accept", resp[c], <<"to">>)
    /\ UNCHANGED <<loc, conn, done>>

streamHandler_to(c) ==
    /\ At(c, "stream", "to")
    /\ LET wto == IDString(LocalID)
           gto == req[c].Header.RaftTo
       IN IF gto # wto
          THEN Step(c, "returned",
                    HttpError(resp[c], "to field mismatch", StatusPreconditionFailed),
                    <<"to">>)
          ELSE Step(c, "accept", resp[c], <<"to">>)
    /\ UNCHANGED <<loc, conn, done>>

\* variant: the status line is written but not flushed
streamHandler_accept_noFlush(c) ==
    /\ At(c, "stream", "accept")
    /\ Step(c, "attach", WriteHeader(resp[c], StatusOK, "WriteHeader"), <<>>)
    /\ UNCHANGED <<loc, conn, done>>

\* w.WriteHeader(http.StatusOK); w.(http.Flusher).Flush()
streamHandler_accept(c) ==
    /\ At(c, "stream", "accept")
    /\ Step(c, "attach", Flush(WriteHeader(resp[c], StatusOK, "WriteHeader")), <<>>)
    /\ UNCHANGED <<loc, conn, done>>

\* newCloseNotifier(): a fresh, open done channel
newCloseNotifier == "open"

\* c := newCloseNotifier(); conn := &outgoingConn{...}; p.attachOutgoingConn(conn)
streamHandler_attach(c) ==
    /\ At(c, "stream", "attach")
    /\ done' = [done EXCEPT ![c] = newCloseNotifier]
    /\ conn' = [conn EXCEPT ![c] = [t |-> loc[c].t, termStr |-> req[c].Header.RaftTerm,
                                    peer |-> loc[c].p, attached |-> TRUE]]
    /\ Step(c, "wait", resp[c], <<"attachOutgoingConn">>)
    /\ UNCHANGED loc

\* a receive from a channel: it blocks while the channel is open and
\* empty, takes the value of a channel that holds one, and completes at once
\* on a closed channel, which stays closed: [ok, ch]
Receive(ch) ==
    CASE ch = "closed" -> [ok |-> TRUE, ch |-> "closed"]
      [] ch = "value" -> [ok |-> TRUE, ch |-> "open"]
      [] OTHER -> [ok |-> FALSE, ch |-> ch]

\* n.closeNotify(): the done channel of the notifier
closeNotify(c) == done[c]

\* variant: ServeHTTP returns without waiting for the notifier
streamHandler_wait_noWait(c) ==
    /\ At(c, "stream", "wait")
    /\ Step(c, "returned", resp[c], <<>>)
    /\ UNCHANGED <<loc, conn, done>>

\* variant: ServeHTTP also returns when the remote end has disconnected
streamHandler_wait_orDisconnect(c) ==
    /\ At(c, "stream", "wait")
    /\ done[c] = "closed" \/ remote[c] = "disconnected"
    /\ Step(c, "returned", resp[c], <<>>)
    /\ UNCHANGED <<loc, conn, done>>

\* <-c.closeNotify(): the receive completes once the channel is closed,
\* and ServeHTTP returns
streamHandler_wait(c) ==
    /\ At(c, "stream", "wait")
    /\ Receive(closeNotify(c)).ok
    /\ done' = [done EXCEPT ![c] = Receive(closeNotify(c)).ch]
    /\ Step(c, "returned", resp[c], <<>>)
    /\ UNCHANGED <<loc, conn>>

\* variant: Close is idempotent, a second Close is a silent no-op
Close_once(c) ==
    /\ ~fault
    /\ conn[c].attached
    /\ closes' = [closes EXCEPT ![c] = @ + 1]
    /\ done' = [done EXCEPT ![c] = "closed"]
    /\ UNCHANGED <<req, pc, resp, loc, calls, conn, fault, waits, remote>>

\* variant: one done channel is shared by all notifiers
Close_shared(c) ==
    /\ ~fault
    /\ conn[c].attached
    /\ closes' = [closes EXCEPT ![c] = @ + 1]
    /\ IF done[c] = "open"
       THEN /\ done' = [d \in DOMAIN done |-> IF done[d] = "open" THEN "closed" ELSE done[d]]
            /\ UNCHANGED fault
       ELSE /\ fault' = TRUE
            /\ UNCHANGED done
    /\ UNCHANGED <<req, pc, resp, loc, calls, conn, waits, remote>>

\* variant: Close sends one value into the channel instead of closing it
Close_send(c) ==
    /\ ~fault
    /\ conn[c].attached
    /\ done[c] = "open"
    /\ closes' = [closes EXCEPT ![c] = @ + 1]
    /\ done' = [done EXCEPT ![c] = "value"]
    /\ UNCHANGED <<req, pc, resp, loc, calls, conn, fault, waits, remote>>

(***************************************************************************)
(* closeNotifier.Close, called by a holder of the outgoingConn:            *)
(* close(n.done) panics when the channel is already closed.                *)
(***************************************************************************)
Close(c) ==
    /\ ~fault
    /\ conn[c].attached
    /\ closes' = [closes EXCEPT ![c] = @ + 1]
    /\ IF done[c] = "open"
       THEN /\ done' = [done EXCEPT ![c] = "closed"]
            /\ UNCHANGED fault
       ELSE /\ fault' = TRUE
            /\ UNCHANGED done
    /\ UNCHANGED <<req, pc, resp, loc, calls, conn, waits, remote>>

\* another receive from n.closeNotify(), by any holder of the notifier
closeNotify_receive(c) ==
    /\ ~fault
    /\ conn[c].attached
    /\ waits[c] < MaxWaits
    /\ Receive(closeNotify(c)).ok
    /\ done' = [done EXCEPT ![c] = Receive(closeNotify(c)).ch]
    /\ waits' = [waits EXCEPT ![c] = @ + 1]
    /\ UNCHANGED <<req, pc, resp, loc, calls, conn, fault, closes, remote>>

\* the remote end closes the connection while the handler is blocked in the
\* receive; nothing in ServeHTTP observes it
RemoteDisconnect(c) ==
    /\ ~fault
    /\ req[c].handler = "stream"
    /\ pc[c] = "wait"
    /\ remote[c] = "connected"
    /\ remote' = [remote EXCEPT ![c] = "disconnected"]
    /\ UNCHANGED <<req, pc, resp, loc, calls, conn, done, fault, closes, waits>>

Next ==
    \/ \E c \in Tasks : Serve(c)
    \/ \E c \in Tasks : handler_method(c)
    \/ \E c \in Tasks : handler_check(c)
    \/ \E c \in Tasks : handler_read(c)
    \/ \E c \in Tasks : handler_process(c)
    \/ \E c \in Tasks : handler_respond(c)
    \/ \E c \in Tasks : snapshotHandler_method(c)
    \/ \E c \in Tasks : snapshotHandler_check(c)
    \/ \E c \in Tasks : snapshotHandler_decode(c)
    \/ \E c \in Tasks : snapshotHandler_save(c)
    \/ \E c \in Tasks : snapshotHandler_process(c)
    \/ \E c \in Tasks : snapshotHandler_respond(c)
    \/ \E c \in Tasks : streamHandler_method(c)
    \/ \E c \in Tasks : streamHandler_check(c)
    \/ \E c \in Tasks : streamHandler_path(c)
    \/ \E c \in Tasks : streamHandler_from(c)
    \/ \E c \in Tasks : streamHandler_removed(c)
    \/ \E c \in Tasks : streamHandler_get(c)
    \/ \E c \in Tasks : streamHandler_to(c)
    \/ \E c \in Tasks : streamHandler_accept(c)
    \/ \E c \in Tasks : streamHandler_attach(c)
    \/ \E c \in Tasks : streamHandler_wait(c)
    \/ \E c \in Tasks : Close(c)
    \/ \E c \in Tasks : closeNotify_receive(c)
    \/ \E c \in Tasks : RemoteDisconnect(c)

Spec == Init /\ [][Next]_vars

(***************************************************************************)
(* Several stream connections served concurrently.  The peers that hold    *)
(* the attached connections follow their contract: a peer closes a         *)
(* connection it holds at most once (when it finds the connection dead or  *)
(* replaces it by a newer one), and it may never do so.  The handler tasks *)
(* are scheduled fairly; the arrival of requests, the peers and the remote *)
(* ends are not.                                                           *)
(***************************************************************************)
StreamTasks == 1..NumStreams

\* well-formed stream requests addressed to this member
SessionRequests ==
    [handler : {"stream"}, Method : {"GET"},
     Path : {RaftStreamPrefix \o <<"7">>, RaftStreamPrefix \o <<streamTypeMessage, "b">>},
     Header : {Header(LocalServerVersion, LocalMinClusterVersion, IDString(LocalCID),
                      IDString(LocalID), "5")},
     Body : {NoBody}]

InitStreams == InitOf(StreamTasks)

ServeStream(c) == ServeOf(c, SessionRequests)

\* the peer closes a connection it holds and has not closed yet
peer_close(c) == done[c] = "open" /\ Close(c)

\* a step of the stream handler in task c
streamHandler_ServeHTTP(c) ==
    \/ streamHandler_method(c)
    \/ streamHandler_check(c)
    \/ streamHandler_path(c)
    \/ streamHandler_from(c)
    \/ streamHandler_removed(c)
    \/ streamHandler_get(c)
    \/ streamHandler_to(c)
    \/ streamHandler_accept(c)
    \/ streamHandler_attach(c)
    \/ streamHandler_wait(c)

NextStreams ==
    \/ \E c \in Tasks : ServeStream(c)
    \/ \E c \in Tasks : streamHandler_method(c)
    \/ \E c \in Tasks : streamHandler_check(c)
    \/ \E c \in Tasks : streamHandler_path(c)
    \/ \E c \in Tasks : streamHandler_from(c)
    \/ \E c \in Tasks : streamHandler_removed(c)
    \/ \E c \in Tasks : streamHandler_get(c)
    \/ \E c \in Tasks : streamHandler_to(c)
    \/ \E c \in Tasks : streamHandler_accept(c)
    \/ \E c \in Tasks : streamHandler_attach(c)
    \/ \E c \in Tasks : streamHandler_wait(c)
    \/ \E c \in Tasks : peer_close(c)
    \/ \E c \in Tasks : RemoteDisconnect(c)

SpecStreams ==
    /\ InitStreams
    /\ [][NextStreams]_vars
    /\ \A c \in StreamTasks : WF_vars(streamHandler_ServeHTTP(c))

(***************************************************************************)
(* Vocabulary of the properties.                                           *)
(***************************************************************************)
\* operation e occurs in the log s
Has(s, e) == \E i \in 1..Len(s) : s[i] = e

\* every occurrence of b in s comes after an occurrence of a
Precedes(s, a, b) ==
    \A i \in 1..Len(s) : s[i] = b => \E j \in 1..(i - 1) : s[j] = a

\* the method the handler of task c allows
AllowedMethod(c) == IF req[c].handler = "stream" THEN "GET" ELSE "POST"
MethodAllowed(c) == req[c].Method = AllowedMethod(c)

\* the request of task c passes / fails the compatibility check
Compatible(c) == checkClusterCompatibilityFromHeader(req[c].Header, LocalCID) = nil
ClusterIDDiffers(c) == req[c].Header.ClusterID # IDString(LocalCID)

\* task c has a request and has written a response status
Responded(c) == pc[c] # "idle" /\ resp[c].status # 0

\* task c has gone past statement group s of its handler
BeforeCheck(c) == pc[c] \in {"idle", "method", "check"}

\* operations that consume the request body
BodyOps == {"read", "unmarshal", "decode", "SaveFrom"}

(***************************************************************************)
(* C1 (as stated): every request to any of the three handlers whose        *)
(* X-Etcd-Cluster-ID header differs from the receiver's cluster ID is      *)
(* answered 412, whatever its method and path.                             *)
(***************************************************************************)
C1_AnyMethod412 ==
    \A c \in Tasks :
        (Responded(c) /\ ClusterIDDiffers(c)) => resp[c].status = StatusPreconditionFailed

(***************************************************************************)
(* C1 (amended): every request that uses the method its handler allows and *)
(* whose X-Etcd-Cluster-ID header differs from the receiver's cluster ID   *)
(* is answered 412 and the handler returns at the compatibility check,     *)
(* whatever its path; a disallowed method is answered 405 instead.         *)
(***************************************************************************)
C1_ClusterMismatch412 ==
    \A c \in Tasks :
        ClusterIDDiffers(c) =>
            /\ (MethodAllowed(c) /\ ~BeforeCheck(c)) =>
                   (pc[c] = "returned" /\ resp[c].status = StatusPreconditionFailed)
            /\ (Responded(c) /\ ~MethodAllowed(c)) =>
                   resp[c].status = StatusMethodNotAllowed

\* a stream request on an unrecognized path, with compatible versions and a
\* foreign cluster ID, has been answered 412 "cluster ID mismatch"
C1_Witness ==
    \E c \in Tasks :
        /\ req[c].handler = "stream" /\ MethodAllowed(c)
        /\ PathDir(req[c].Path) = ProbingPrefix
        /\ ClusterIDDiffers(c)
        /\ checkVersionCompability(serverVersion(req[c].Header),
                                   minClusterVersion(req[c].Header)) = nil
        /\ pc[c] = "returned"
        /\ resp[c].status = StatusPreconditionFailed
        /\ resp[c].body = errClusterIDMismatch

(***************************************************************************)
(* C2 (as stated): every response written by any of the three handlers     *)
(* carries X-Etcd-Cluster-ID set to the receiver's cluster ID, whatever    *)
(* the outcome.                                                            *)
(***************************************************************************)
C2_EveryResponseEchoes ==
    \A c \in Tasks :
        Responded(c) => resp[c].hdr.ClusterID = IDString(LocalCID)

(***************************************************************************)
(* C2 (amended): every response to a request that uses the handler's       *)
(* allowed method (success, 400, 404, 410, 412, 500 or a status written by *)
(* the engine's error) carries X-Etcd-Cluster-ID set to the receiver's     *)
(* cluster ID; the 405 answer to a disallowed method does not carry it.    *)
(***************************************************************************)
C2_ResponseEchoesClusterID ==
    \A c \in Tasks :
        Responded(c) =>
            IF MethodAllowed(c)
            THEN resp[c].hdr.ClusterID = IDString(LocalCID)
            ELSE resp[c].status = StatusMethodNotAllowed /\ resp[c].hdr.ClusterID = ""

\* a snapshot request answered 500 carries the header
C2_Witness ==
    \E c \in Tasks :
        /\ req[c].handler = "snapshot"
        /\ pc[c] = "returned"
        /\ resp[c].status = StatusInternalServerError
        /\ resp[c].hdr.ClusterID = IDString(LocalCID)

(***************************************************************************)
(* C3: within one request to the message or the snapshot handler, the      *)
(* compatibility check comes before any read of the body, the read and     *)
(* decode of the body come before Process, and after a failed check the    *)
(* body is never read and Process is never called.                         *)
(***************************************************************************)
C3_CheckReadProcessOrder ==
    \A c \in Tasks :
        req[c].handler \in {"msg", "snapshot"} =>
            /\ \A op \in BodyOps : Precedes(calls[c], "check", op)
            /\ Precedes(calls[c], "check", "Process")
            /\ req[c].handler = "msg" =>
                   /\ Precedes(calls[c], "read", "Process")
                   /\ Precedes(calls[c], "unmarshal", "Process")
            /\ req[c].handler = "snapshot" => Precedes(calls[c], "decode", "Process")
            /\ ~Compatible(c) =>
                   \A op \in BodyOps \cup {"Process"} : ~Has(calls[c], op)

\* a message request has been checked, read, unmarshaled and handed to Process
C3_Witness ==
    \E c \in Tasks :
        /\ req[c].handler = "msg"
        /\ calls[c] = <<"check", "read", "unmarshal", "Process">>

C5_ProcessOnlyAfterSave ==
    \A c \in Tasks :
        req[c].handler = "snapshot" =>
            /\ Precedes(calls[c], "SaveFrom ok", "Process")
            /\ Has(calls[c], "SaveFrom failed") =>
                   /\ pc[c] = "returned"
                   /\ resp[c].status = StatusInternalServerError
                   /\ ~Has(calls[c], "Process")

\* a snapshot request whose SaveFrom failed has been answered
C5_Witness ==
    \E c \in Tasks :
        /\ req[c].handler = "snapshot"
        /\ calls[c] = <<"check", "decode", "SaveFrom", "SaveFrom failed">>
        /\ resp[c].status = StatusInternalServerError

(***************************************************************************)
(* C6: a POST to the snapshot handler that passes the compatibility check  *)
(* and whose envelope decodes to a message that is not MsgSnap is answered *)
(* 400, and neither SaveFrom nor Process is called.                        *)
(***************************************************************************)
C6_WrongTypeOnSnapshotPath ==
    \A c \in Tasks :
        (/\ req[c].handler = "snapshot" /\ MethodAllowed(c) /\ Compatible(c)
         /\ ~decode(req[c].Body).err
         /\ decode(req[c].Body).m.Type # "MsgSnap") =>
            /\ ~Has(calls[c], "SaveFrom")
            /\ ~Has(calls[c], "Process")
            /\ resp[c].status \in {0, StatusBadRequest}
            /\ pc[c] \notin {"idle", "method", "check", "decode"} =>
                   (pc[c] = "returned" /\ resp[c].status = StatusBadRequest)

\* a well-formed MsgApp envelope on the snapshot path has been answered 400
C6_Witness ==
    \E c \in Tasks :
        /\ req[c].handler = "snapshot" /\ MethodAllowed(c) /\ Compatible(c)
        /\ req[c].Body.valid /\ req[c].Body.m.Type = "MsgApp"
        /\ pc[c] = "returned"
        /\ resp[c].status = StatusBadRequest
        /\ resp[c].body = "wrong raft message type"

(***************************************************************************)
(* C7: a POST to the message handler that passes the compatibility check   *)
(* and whose body is read but fails to unmarshal is answered 400 with the  *)
(* body "error unmarshaling raft message", and Process is never called.    *)
(***************************************************************************)
C7_UnmarshalFailure400 ==
    \A c \in Tasks :
        (/\ req[c].handler = "msg" /\ MethodAllowed(c) /\ Compatible(c)
         /\ ~ReadAllLimited(req[c].Body, ConnReadLimitByte).err
         /\ Unmarshal(req[c].Body).err) =>
            /\ ~Has(calls[c], "Process")
            /\ resp[c].status \in {0, StatusBadRequest}
            /\ pc[c] \notin {"idle", "method", "check", "read"} =>
                   /\ pc[c] = "returned"
                   /\ resp[c].status = StatusBadRequest
                   /\ resp[c].body = "error unmarshaling raft message"
                   /\ Has(calls[c], "unmarshal")

\* a malformed body within the ceiling has been answered
C7_Witness ==
    \E c \in Tasks :
        /\ req[c].handler = "msg"
        /\ ~req[c].Body.valid /\ ~req[c].Body.readErr
        /\ req[c].Body.len = ConnReadLimitByte
        /\ calls[c] = <<"check", "read", "unmarshal">>
        /\ resp[c].body = "error unmarshaling raft message"

(***************************************************************************)
(* C8: in the message and the snapshot handler nothing is written before   *)
(* Process has returned, and its result alone decides the response: nil    *)
(* gives 204, an error implementing writerToResponse has the response      *)
(* written by its WriteTo and by nothing else, any other error gives 500.  *)
(***************************************************************************)
C8_ProcessDecidesResponse ==
    \A c \in Tasks :
        req[c].handler \in {"msg", "snapshot"} =>
            /\ pc[c] \in {"process", "respond"} => resp[c].status = 0
            /\ resp[c].status = StatusNoContent => Has(calls[c], "Process")
            /\ Has(calls[c], "WriteTo") <=> resp[c].by = "WriteTo"
            /\ (pc[c] = "returned" /\ Has(calls[c], "Process")) =>
                   CASE loc[c].err.kind = "nil" ->
                            /\ resp[c].status = StatusNoContent
                            /\ resp[c].by = "WriteHeader"
                     [] loc[c].err.kind = "writerToResponse" ->
                            /\ resp[c].status = loc[c].err.code
                            /\ resp[c].by = "WriteTo"
                            /\ resp[c].body = ""
                     [] OTHER ->
                            /\ resp[c].status = StatusInternalServerError
                            /\ resp[c].by = "http.Error"

\* a snapshot request whose Process returned a writerToResponse error has
\* been answered by that error
C8_Witness ==
    \E c \in Tasks :
        /\ req[c].handler = "snapshot"
        /\ pc[c] = "returned"
        /\ loc[c].err.kind = "writerToResponse"
        /\ resp[c].status = StatusForbidden
        /\ resp[c].by = "WriteTo"

(***************************************************************************)
(* C9: a GET stream request that passes the compatibility check, has a     *)
(* recognized path and a parseable sender ID which the engine reports as   *)
(* removed is answered 410; the peer directory's Get is never called and   *)
(* no connection is attached.                                              *)
(***************************************************************************)
C9_RemovedSender410 ==
    \A c \in Tasks :
        (req[c].handler = "stream" /\ Has(calls[c], "removed")) =>
            /\ pc[c] = "returned"
            /\ resp[c].status = StatusGone
            /\ ~Has(calls[c], "Get")
            /\ ~Has(calls[c], "attachOutgoingConn")
            /\ ~conn[c].attached

\* GET /raft/stream/7 from a removed sender has been answered 410
C9_Witness ==
    \E c \in Tasks :
        /\ req[c].handler = "stream" /\ MethodAllowed(c) /\ Compatible(c)
        /\ req[c].Path = RaftStreamPrefix \o <<"7">>
        /\ calls[c] = <<"check", "path", "from", "IsIDRemoved", "removed">>
        /\ resp[c].status = StatusGone

(***************************************************************************)
(* C10: a GET stream request from a non-removed sender that resolves to a  *)
(* known peer but whose X-Raft-To header differs from the receiver's own   *)
(* ID string is answered 412; 200 is never written and attachOutgoingConn  *)
(* is never called.                                                        *)
(***************************************************************************)
C10_RaftToMismatch412 ==
    \A c \in Tasks :
        (req[c].handler = "stream" /\ req[c].Header.RaftTo # IDString(LocalID)) =>
            /\ resp[c].status # StatusOK
            /\ ~Has(calls[c], "attachOutgoingConn")
            /\ ~conn[c].attached
            /\ (loc[c].p # 0 /\ pc[c] # "to") =>
                   (pc[c] = "returned" /\ resp[c].status = StatusPreconditionFailed)

\* GET /raft/stream/message/7 from a known peer, addressed to "A" while the
\* receiver's ID string is "a", has been answered 412
C10_Witness ==
    \E c \in Tasks :
        /\ req[c].handler = "stream"
        /\ req[c].Path = RaftStreamPrefix \o <<streamTypeMessage, "7">>
        /\ req[c].Header.RaftTo = "A"
        /\ loc[c].p = 7
        /\ pc[c] = "returned"
        /\ resp[c].status = StatusPreconditionFailed
        /\ resp[c].body = "to field mismatch"

(***************************************************************************)
(* C11: in the stream handler attachOutgoingConn is called only after      *)
(* every check has passed and after status 200 has been written and        *)
(* flushed: whenever the handler is about to hand the write sink to the    *)
(* peer, or the peer holds it, the 200 has been written and flushed.       *)
(***************************************************************************)
C11_AttachAfter200Flushed ==
    \A c \in Tasks :
        (req[c].handler = "stream"
         /\ (pc[c] = "attach" \/ conn[c].attached \/ Has(calls[c], "attachOutgoingConn"))) =>
            /\ resp[c].status = StatusOK
            /\ resp[c].by = "WriteHeader"
            /\ resp[c].flushed
            /\ MethodAllowed(c) /\ Compatible(c)
            /\ streamTypeOfPath(req[c].Path).ok
            /\ ~IDFromString(PathBase(req[c].Path)).err
            /\ ~Has(calls[c], "removed")
            /\ loc[c].p # 0
            /\ req[c].Header.RaftTo = IDString(LocalID)
            /\ SubSeq(calls[c], 1, 6) = <<"check", "path", "from", "IsIDRemoved", "Get", "to">>

\* a stream has been accepted and its connection is held by the peer
C11_Witness ==
    \E c \in Tasks :
        /\ req[c].handler = "stream"
        /\ pc[c] = "wait"
        /\ conn[c].attached /\ conn[c].peer = 7
        /\ resp[c].status = StatusOK /\ resp[c].flushed

(***************************************************************************)
(* C12: after a stream connection has been attached the handler never      *)
(* returns before Close has been called on that connection's close         *)
(* notifier, and once Close has been called the handler eventually         *)
(* returns, the handler task being scheduled fairly.                       *)
(***************************************************************************)
C12_ReturnsAfterCloseOnly ==
    /\ [](\A c \in StreamTasks : (conn[c].attached /\ pc[c] = "returned") => closes[c] > 0)
    /\ \A c \in StreamTasks : (closes[c] > 0) ~> (pc[c] = "returned")

\* the peer has closed an attached connection and its handler has returned
C12_Witness ==
    \E c \in Tasks :
        /\ conn[c].attached
        /\ closes[c] = 1
        /\ done[c] = "closed"
        /\ pc[c] = "returned"

(***************************************************************************)
(* C13 (as stated): a remote disconnect while the handler is blocked leads *)
(* to the handler returning, even if the peer never calls Close.           *)
(***************************************************************************)
C13_DisconnectReleasesHandler ==
    \A c \in StreamTasks : (remote[c] = "disconnected") ~> (pc[c] = "returned")

(***************************************************************************)
(* C13 (amended): the handler of an attached stream connection returns on  *)
(* one event only, a Close of the connection's close notifier by the       *)
(* holder of the connection.  A remote disconnect does not release the     *)
(* handler by itself: the handler stays blocked until Close is called, and *)
(* returns once it has been.                                               *)
(***************************************************************************)
C13_OnlyCloseReleasesHandler ==
    /\ [](\A c \in StreamTasks :
             (remote[c] = "disconnected" /\ closes[c] = 0) => pc[c] = "wait")
    /\ \A c \in StreamTasks :
           (remote[c] = "disconnected" /\ closes[c] > 0) ~> (pc[c] = "returned")

\* the remote end is gone, the peer has not closed the connection, and the
\* handler is still blocked
C13_Witness ==
    \E c \in Tasks :
        /\ remote[c] = "disconnected"
        /\ closes[c] = 0
        /\ done[c] = "open"
        /\ pc[c] = "wait"

(***************************************************************************)
(* C14: before a close notifier has been fired every wait on its           *)
(* closeNotify() blocks; once it has been fired (Close called once) every  *)
(* wait returns at once, the handler's and any number of further ones, and *)
(* no wait has ever completed on a notifier that was not fired.            *)
(***************************************************************************)
C14_WaitAfterFireReturns ==
    \A c \in Tasks :
        (conn[c].attached /\ ~fault) =>
            /\ closes[c] = 0 =>
                   /\ ~ENABLED closeNotify_receive(c)
                   /\ ~ENABLED streamHandler_wait(c)
                   /\ waits[c] = 0
                   /\ pc[c] = "wait"
            /\ closes[c] > 0 =>
                   /\ waits[c] < MaxWaits => ENABLED closeNotify_receive(c)
                   /\ pc[c] = "wait" => ENABLED streamHandler_wait(c)

\* after one Close the handler's wait and MaxWaits further waits have all
\* completed
C14_Witness ==
    \E c \in Tasks :
        /\ closes[c] = 1 /\ ~fault
        /\ waits[c] = MaxWaits
        /\ pc[c] = "returned"

(***************************************************************************)
(* C15: for a stream request that reaches the classification, the stream   *)
(* type is a function of the directory of the URL path only:               *)
(* /raft/stream/<id> selects the legacy type (msgapp),                     *)
(* /raft/stream/msgapp/<id> the typed-v1 type (msgappv2),                  *)
(* /raft/stream/message/<id> the typed-v2 type (message); every other path *)
(* is answered 404 with no peer lookup and no attach.  Headers and sender  *)
(* ID do not enter.                                                        *)
(***************************************************************************)
C15_StreamTypeOfPathOnly ==
    \A c \in Tasks :
        (req[c].handler = "stream" /\ Has(calls[c], "path")) =>
            LET dir == PathDir(req[c].Path)
            IN IF dir = <<"raft", "stream">>
               THEN loc[c].t = "msgapp" /\ (conn[c].attached => conn[c].t = "msgapp")
               ELSE IF dir = <<"raft", "stream", "msgapp">>
               THEN loc[c].t = "msgappv2" /\ (conn[c].attached => conn[c].t = "msgappv2")
               ELSE IF dir = <<"raft", "stream", "message">>
               THEN loc[c].t = "message" /\ (conn[c].attached => conn[c].t = "message")
               ELSE /\ pc[c] = "returned"
                    /\ resp[c].status = StatusNotFound
                    /\ calls[c] = <<"check", "path">>
                    /\ ~conn[c].attached

\* /raft/stream/msgapp/b has been attached as msgappv2, whatever its term
C15_Witness ==
    \E c \in Tasks :
        /\ req[c].Path = <<"raft", "stream", "msgapp", "b">>
        /\ req[c].Header.RaftTerm = ""
        /\ conn[c].attached
        /\ conn[c].t = "msgappv2"

(***************************************************************************)
(* C16: a request with a disallowed method is answered 405 with the Allow  *)
(* header naming the allowed method (POST on the message and snapshot      *)
(* handlers, GET on the stream handler); the compatibility check is not    *)
(* run, the body is not read, and no collaborator is called.               *)
(***************************************************************************)
C16_MethodNotAllowed ==
    \A c \in Tasks :
        (pc[c] # "idle" /\ ~MethodAllowed(c)) =>
            /\ calls[c] = <<>>
            /\ ~conn[c].attached
            /\ loc[c] = NoLocals
            /\ pc[c] \in {"method", "returned"}
            /\ pc[c] = "returned" =>
                   /\ resp[c].status = StatusMethodNotAllowed
                   /\ resp[c].hdr.Allow = (IF req[c].handler = "stream" THEN "GET" ELSE "POST")
                   /\ resp[c].body = "Method Not Allowed"

\* a POST to the stream handler has been answered 405 with Allow: GET
C16_Witness ==
    \E c \in Tasks :
        /\ req[c].handler = "stream" /\ req[c].Method = "POST"
        /\ pc[c] = "returned"
        /\ resp[c].status = StatusMethodNotAllowed
        /\ resp[c].hdr.Allow = "GET"

\* a GET stream request that has passed the compatibility check, on a
\* recognized path whose last segment does not parse as an ID
UnparseableFrom(c) ==
    /\ req[c].handler = "stream" /\ MethodAllowed(c) /\ Compatible(c)
    /\ streamTypeOfPath(req[c].Path).ok
    /\ IDFromString(PathBase(req[c].Path)).err

(***************************************************************************)
(* C17 (as stated): a GET stream request on a recognized stream path whose *)
(* trailing path segment is not a parseable sender ID is answered 400.     *)
(***************************************************************************)
C17_UnparseableFrom400 ==
    \A c \in Tasks :
        (UnparseableFrom(c) /\ Responded(c)) => resp[c].status = StatusBadRequest

(***************************************************************************)
(* C17 (amended): a GET stream request that passes the compatibility check *)
(* on a recognized stream path whose trailing path segment is not a        *)
(* parseable sender ID is answered 404 "invalid from", before the engine   *)
(* or the peer directory is asked.                                         *)
(***************************************************************************)
C17_UnparseableFrom404 ==
    \A c \in Tasks :
        UnparseableFrom(c) =>
            /\ resp[c].status \in {0, StatusNotFound}
            /\ ~Has(calls[c], "IsIDRemoved")
            /\ ~Has(calls[c], "Get")
            /\ Has(calls[c], "from") =>
                   /\ pc[c] = "returned"
                   /\ resp[c].status = StatusNotFound
                   /\ resp[c].body = "invalid from"

\* GET /raft/stream/message/zz has been answered 404
C17_Witness ==
    \E c \in Tasks :
        /\ UnparseableFrom(c)
        /\ req[c].Path = <<"raft", "stream", "message", "zz">>
        /\ pc[c] = "returned"
        /\ resp[c].status = StatusNotFound

\* the checks of the stream handler, in the order of the claim, as they
\* appear in the log of a request that passes them all
StreamCheckOrder == <<"check", "path", "from", "IsIDRemoved", "Get", "to", "attachOutgoingConn">>

\* the log of task c without the mark of IsIDRemoved's result
ChecksMade(c) == SelectSeq(calls[c], LAMBDA e : e # "removed")

\* s is a prefix of t
IsPrefix(s, t) == Len(s) <= Len(t) /\ s = SubSeq(t, 1, Len(s))

(***************************************************************************)
(* C18: the stream handler evaluates its checks in one fixed order,        *)
(* method, compatibility, stream path, sender-ID parse, IsIDRemoved, peer  *)
(* Get, X-Raft-To; the response status is that of the first check that     *)
(* fails (405, 412, 404, 404, 410, 404, 412); no later check or            *)
(* collaborator call is made after a failure; 200 is written only when all *)
(* pass.                                                                   *)
(***************************************************************************)
C18_FirstFailingCheckDecides ==
    \A c \in Tasks :
        req[c].handler = "stream" =>
            /\ IsPrefix(ChecksMade(c), StreamCheckOrder)
            /\ resp[c].status = StatusOK =>
                   /\ MethodAllowed(c) /\ Compatible(c)
                   /\ streamTypeOfPath(req[c].Path).ok
                   /\ ~IDFromString(PathBase(req[c].Path)).err
                   /\ ~Has(calls[c], "removed")
                   /\ loc[c].p # 0
                   /\ req[c].Header.RaftTo = IDString(LocalID)
            /\ pc[c] = "returned" =>
                   IF ~MethodAllowed(c)
                   THEN calls[c] = <<>> /\ resp[c].status = 405
                   ELSE IF ~Compatible(c)
                   THEN calls[c] = <<"check">> /\ resp[c].status = 412
                   ELSE IF PathDir(req[c].Path) \notin
                               {<<"raft", "stream">>, <<"raft", "stream", "msgapp">>,
                                <<"raft", "stream", "message">>}
                   THEN calls[c] = <<"check", "path">> /\ resp[c].status = 404
                   ELSE IF IDFromString(PathBase(req[c].Path)).err
                   THEN calls[c] = <<"check", "path", "from">> /\ resp[c].status = 404
                   ELSE IF Has(calls[c], "removed")
                   THEN /\ calls[c] = <<"check", "path", "from", "IsIDRemoved", "removed">>
                        /\ resp[c].status = 410
                   ELSE IF loc[c].p = 0
                   THEN /\ calls[c] = <<"check", "path", "from", "IsIDRemoved", "Get">>
                        /\ resp[c].status = 404
                   ELSE IF req[c].Header.RaftTo # IDString(LocalID)
                   THEN /\ calls[c] = <<"check", "path", "from", "IsIDRemoved", "Get", "to">>
                        /\ resp[c].status = 412
                   ELSE calls[c] = StreamCheckOrder /\ resp[c].status = 200

\* a request that fails several checks (unknown path, unparseable sender,
\* foreign recipient) has been answered by the first of them
C18_Witness ==
    \E c \in Tasks :
        /\ req[c].handler = "stream" /\ MethodAllowed(c) /\ Compatible(c)
        /\ req[c].Path = <<"raft", "probing", "zz">>
        /\ req[c].Header.RaftTo = "b"
        /\ pc[c] = "returned"
        /\ resp[c].status = StatusNotFound
        /\ resp[c].body = "invalid path"

(***************************************************************************)
(* C19: the close notifier is single-fire and firing is not idempotent:    *)
(* the first Close closes the done channel, a second Close on the same     *)
(* notifier is a fault (the panic of closing a closed channel), never a    *)
(* silent no-op; the fault state is reachable when two holders of the      *)
(* same outgoing connection both call Close.                               *)
(***************************************************************************)
C19_SecondCloseFaults ==
    /\ \A c \in Tasks :
           /\ closes[c] = 0 => done[c] \in {"none", "open"}
           /\ closes[c] = 1 => done[c] = "closed" /\ ~fault
           /\ closes[c] >= 2 => done[c] = "closed" /\ fault
    /\ fault => \E c \in Tasks : closes[c] = 2

\* Close has been called twice on one notifier and the process has panicked
C19_Witness ==
    \E c \in Tasks :
        /\ conn[c].attached
        /\ closes[c] = 2
        /\ fault

(***************************************************************************)
(* C20: with several stream connections served concurrently each accepted  *)
(* connection has its own close notifier: a step changes the notifier of   *)
(* at most one connection, a handler blocked on a notifier that has not    *)
(* been closed stays blocked whatever happens to the other connections,    *)
(* and a handler that has returned had its own notifier closed.            *)
(***************************************************************************)
C20_CloseReleasesOwnHandlerOnly ==
    [][\A c \in StreamTasks :
          /\ (pc[c] = "wait" /\ closes[c] = 0) => pc'[c] = "wait"
          /\ (conn'[c].attached /\ pc'[c] = "returned") => (closes[c] = 1 /\ done[c] = "closed")
          /\ \A d \in StreamTasks \ {c} :
                 (done'[c] # done[c] \/ closes'[c] # closes[c]) =>
                     (done'[d] = done[d] /\ closes'[d] = closes[d] /\ pc'[d] = pc[d])
          /\ (pc[c] = "attach" /\ pc'[c] = "wait") => (done'[c] = "open" /\ closes'[c] = 0)
      ]_vars

\* two streams were attached, one has been closed and its handler has
\* returned, the other handler is still blocked
C20_Witness ==
    \E c \in Tasks : \E d \in Tasks \ {c} :
        /\ conn[c].attached /\ conn[d].attached
        /\ closes[c] = 1 /\ pc[c] = "returned"
        /\ closes[d] = 0 /\ done[d] = "open" /\ pc[d] = "wait"

====
